---- MODULE Spec2Model ----
(***************************************************************************)
(* External merge sort of src/sorting/sort.py: cutter -> parallel sorter   *)
(* tasks -> merge_tasks coordinator feeding merger tasks -> rename.        *)
(*                                                                         *)
(* A record is one array('i') item.  A file is a sequence of records.      *)
(* Temporary files are named by the numbers NamedTemporaryFile hands out.  *)
(* The coordinator (main thread) and the pool's result-handler thread,     *)
(* which runs cb, share the global sorted_fn_list without a lock; the      *)
(* coordinator's statements are therefore split where cb can interleave.   *)
(***************************************************************************)
EXTENDS Integers, Sequences, FiniteSets, TLC

\* ---- bounds of the model ----
MaxLen == 3        \* longest input file, in records
MaxVal == 1        \* records are drawn from 0..MaxVal
MaxMerges == 3     \* MERGES is drawn from 2..MaxMerges
MaxPerFile == 2    \* INT_PER_FILE is drawn from 1..MaxPerFile
MaxSegLen == 2     \* longest file handed to a merger run on its own, in records
MaxFaults == 1     \* at most this many I/O failures in one run

\* ---- program constant (scaled down) ----
INT_PER_CHUNK == 2

VARIABLES
    input,           \* content of the input file
    MERGES,          \* fan-in limit (module global)
    INT_PER_FILE,    \* records per cut file (module global)
    pos,             \* read offset of cutter's file handle, in records
    disk,            \* temporary files: name -> content
    nextFile,        \* next name NamedTemporaryFile hands out
    tasks,           \* tasks submitted with apply_async and not yet finished
    closed,          \* the current pool has been close()d
    sorted_fn_list,  \* the global list cb appends to
    yanked,          \* value of sorted_fn_list[MERGES:] between load and store
    pc,              \* position of the coordinator in sort()/merge_tasks()
    output,          \* the output path: <<>> when absent, <<content>> when present
    output0,         \* what the output path held when sort() was called
    handed,          \* the list merge_tasks yielded and has not yet removed
    live_pools,      \* number of pools created and not yet close()d
    faults           \* number of tasks (or the rename) that raised

vars == <<input, MERGES, INT_PER_FILE, pos, disk, nextFile, tasks, closed,
          sorted_fn_list, yanked, pc, output, faults, output0, handed, live_pools>>

\* ---- sequences ----
Min(a, b) == IF a < b THEN a ELSE b

\* l[:n + 1] where l[:n] was meant
SliceTo_one_more(l, n) == SubSeq(l, 1, Min(n + 1, Len(l)))

\* l[:n] of a Python list
SliceTo(l, n) == SubSeq(l, 1, Min(n, Len(l)))

\* l[n:] of a Python list
SliceFrom(l, n) == SubSeq(l, Min(n, Len(l)) + 1, Len(l))

RECURSIVE SeqsUpTo(_, _)
SeqsUpTo(S, n) ==
    IF n = 0 THEN {<<>>}
    ELSE LET shorter == SeqsUpTo(S, n - 1)
         IN  shorter \cup {Append(s, x) : s \in {t \in shorter : Len(t) = n - 1}, x \in S}

Range(s) == {s[i] : i \in 1..Len(s)}

IsSorted(s) == \A i \in 1..(Len(s) - 1) : s[i] <= s[i + 1]

Count(s, v) == Cardinality({i \in 1..Len(s) : s[i] = v})

SameRecords(s, t) == \A v \in Range(s) \cup Range(t) : Count(s, v) = Count(t, v)

\* ---- the file system ----
Exists(d, fn) == fn \in DOMAIN d

WriteFile(d, fn, content) ==
    [f \in DOMAIN d \cup {fn} |-> IF f = fn THEN content ELSE d[f]]

Unlink(d, fns) == [f \in DOMAIN d \ fns |-> d[f]]

\* ---- pure functions of sort.py ----
\* (functions rather than recursive operators: their arguments are values)

\* file_reader: the items of a file in the order the generator yields them.
\* a.fromfile(f, INT_PER_CHUNK) fills a whole buffer, or raises EOFError with
\* the items that were left already appended to a.
file_reader[f \in Seq(Int)] ==
    IF Len(f) >= INT_PER_CHUNK
    THEN SliceTo(f, INT_PER_CHUNK) \o file_reader[SliceFrom(f, INT_PER_CHUNK)]
    ELSE f

\* the iterable heapq.merge takes its next item from: the one with the least
\* head, the first of them when heads are equal
least_head(it) ==
    CHOOSE i \in 1..Len(it) :
        /\ it[i] # <<>>
        /\ \A j \in 1..Len(it) :
              it[j] # <<>> => (it[i][1] < it[j][1] \/ (it[i][1] = it[j][1] /\ i <= j))

\* heapq.merge(*it)
heapq_merge[it \in Seq(Seq(Int))] ==
    IF \A i \in 1..Len(it) : it[i] = <<>> THEN <<>>
    ELSE <<it[least_head(it)][1]>>
         \o heapq_merge[[it EXCEPT ![least_head(it)] = Tail(it[least_head(it)])]]

\* the loop of merge_files over the merged items: s[1] are the items still to
\* come, s[2] is the buffer c (cidx = Len(c)), s[3] the items already written
\* with c.tofile; the last buffer is written after the loop
buffered_write[s \in Seq(Int) \X Seq(Int) \X Seq(Int)] ==
    IF s[1] = <<>> THEN s[3] \o s[2]
    ELSE IF Len(s[2]) + 1 = INT_PER_CHUNK
         THEN buffered_write[<<Tail(s[1]), <<>>, s[3] \o Append(s[2], Head(s[1]))>>]
         ELSE buffered_write[<<Tail(s[1]), Append(s[2], Head(s[1])), s[3]>>]

\* merge_files writing the files one after the other instead of merging them
RECURSIVE concatenated(_, _)
concatenated(d, fn_list) ==
    IF fn_list = <<>> THEN <<>> ELSE d[Head(fn_list)] \o concatenated(d, Tail(fn_list))

\* merge_files without the write of the last, partly filled buffer
merge_files_noflush(d, fn_list) ==
    LET it == [i \in 1..Len(fn_list) |-> file_reader[d[fn_list[i]]]]
        n == Len(heapq_merge[it])
    IN  SliceTo(buffered_write[<<heapq_merge[it], <<>>, <<>>>>], n - (n % INT_PER_CHUNK))

\* content of the temporary file merge_files writes for the files in fn_list
merge_files(d, fn_list) ==
    buffered_write[<<heapq_merge[[i \in 1..Len(fn_list) |-> file_reader[d[fn_list[i]]]]],
                     <<>>, <<>>>>]

\* where sorted() puts the last item of a among the sorted items before it
rank(a) == Cardinality({i \in 1..(Len(a) - 1) : a[i] <= a[Len(a)]})

\* sorted(a), by insertion (equal items are indistinguishable)
sorted[a \in Seq(Int)] ==
    IF a = <<>> THEN <<>>
    ELSE SubSeq(sorted[SubSeq(a, 1, Len(a) - 1)], 1, rank(a))
         \o <<a[Len(a)]>>
         \o SubSeq(sorted[SubSeq(a, 1, Len(a) - 1)], rank(a) + 1, Len(a) - 1)

\* sorter writing back what it read, unsorted
sorter_unsorted(f) == SliceTo(f, INT_PER_FILE)

\* content sorter leaves in its file: at most INT_PER_FILE items are read
sorter(f) == sorted[SliceTo(f, INT_PER_FILE)]

\* cutter reading windows one record too long: f.read(INT_PER_FILE * 4 + 4)
next_chunk_long == SubSeq(input, pos + 1, Min(pos + INT_PER_FILE + 1, Len(input)))

\* the chunk cutter's next f.read returns
next_chunk == SubSeq(input, pos + 1, Min(pos + INT_PER_FILE, Len(input)))

\* number of files cutter yields for the input
n_cut_files == (Len(input) + INT_PER_FILE - 1) \div INT_PER_FILE

\* merge_tasks' test `len(sorted_fn_list) > 1`, with `>=` for `>`
something_to_merge_ge == Len(sorted_fn_list) >= 1

\* merge_tasks' test `len(sorted_fn_list) > 1`
something_to_merge == Len(sorted_fn_list) > 1

\* pool.join() of merge_tasks left out: the test of line 109 is made at once
join_skipped == TRUE

\* pool.join() of merge_tasks returns: every task of the pool has ended and
\* the result handler has run its callback
join_returns == tasks = {}

\* cb: the result-handler thread appends to whatever list the global names
cb(arg) == sorted_fn_list' = Append(sorted_fn_list, arg)

\* a file found at the output path when sort() is called: left there by
\* something else, so it need not be sorted
stale_output == <<MaxVal, 0>>

\* ---- initial state: sort(input, output) has created its first pool ----
Init ==
    /\ input \in SeqsUpTo(0..MaxVal, MaxLen)
    /\ MERGES \in 2..MaxMerges
    /\ INT_PER_FILE \in 1..MaxPerFile
    /\ pos = 0
    /\ disk = << >>
    /\ nextFile = 1
    /\ tasks = {}
    /\ closed = FALSE
    /\ sorted_fn_list = <<>>
    /\ yanked = <<>>
    /\ pc = "cut"
    /\ output \in {<<>>, <<stale_output>>}
    /\ output0 = output
    /\ handed = <<>>
    /\ live_pools = 1
    /\ faults = 0

\* ---- the coordinator: sort() ----

\* one iteration of `for fn in cutter(input)`: write the next chunk to a new
\* temporary file and submit a sorter task for it
CutAndSubmit ==
    /\ pc = "cut"
    /\ next_chunk # <<>>
    /\ disk' = WriteFile(disk, nextFile, next_chunk)
    /\ tasks' = tasks \cup {[fn |-> "sorter", args |-> <<nextFile>>]}
    /\ nextFile' = nextFile + 1
    /\ pos' = pos + Len(next_chunk)
    /\ UNCHANGED <<input, MERGES, INT_PER_FILE, closed, sorted_fn_list, yanked,
                   pc, output, faults>>
    /\ UNCHANGED <<output0, handed, live_pools>>

\* cutter is exhausted; pool.close()
SortPoolClose ==
    /\ pc = "cut"
    /\ next_chunk = <<>>
    /\ closed' = TRUE
    /\ pc' = "sortjoin"
    /\ live_pools' = live_pools - 1
    /\ UNCHANGED <<input, MERGES, INT_PER_FILE, pos, disk, nextFile, tasks,
                   sorted_fn_list, yanked, output, faults>>
    /\ UNCHANGED <<output0, handed>>

\* pool.join() returns once every task and its callback have run; the pool
\* for merging is created and merge_tasks starts
SortPoolJoin ==
    /\ pc = "sortjoin"
    /\ tasks = {}
    /\ closed' = FALSE
    /\ pc' = "test"
    /\ live_pools' = live_pools + 1
    /\ UNCHANGED <<input, MERGES, INT_PER_FILE, pos, disk, nextFile, tasks,
                   sorted_fn_list, yanked, output, faults>>
    /\ UNCHANGED <<output0, handed>>

\* ---- the coordinator: merge_tasks() ----

\* len(sorted_fn_list) > 1: yield sorted_fn_list[:MERGES]; sort() submits it.
\* cb can only append, so the test, the slice and apply_async are one step.
MergeSubmit ==
    /\ pc = "test"
    /\ something_to_merge
    /\ handed' = SliceTo(sorted_fn_list, MERGES)
    /\ tasks' = tasks \cup {[fn |-> "merger", args |-> handed']}
    /\ pc' = "yank"
    /\ UNCHANGED <<input, MERGES, INT_PER_FILE, pos, disk, nextFile, closed,
                   sorted_fn_list, yanked, output, faults>>
    /\ UNCHANGED <<output0, live_pools>>

\* the right-hand side of sorted_fn_list = sorted_fn_list[MERGES:]
MergeYankLoad ==
    /\ pc = "yank"
    /\ yanked' = SliceFrom(sorted_fn_list, MERGES)
    /\ pc' = "store"
    /\ UNCHANGED <<input, MERGES, INT_PER_FILE, pos, disk, nextFile, tasks, closed,
                   sorted_fn_list, output, faults>>
    /\ UNCHANGED <<output0, handed, live_pools>>

\* the store of sorted_fn_list = sorted_fn_list[MERGES:]
MergeYankStore ==
    /\ pc = "store"
    /\ sorted_fn_list' = yanked
    /\ yanked' = <<>>
    /\ pc' = "test"
    /\ handed' = <<>>
    /\ UNCHANGED <<input, MERGES, INT_PER_FILE, pos, disk, nextFile, tasks, closed,
                   output, faults>>
    /\ UNCHANGED <<output0, live_pools>>

\* len(sorted_fn_list) <= 1 with the pool.close() left out: the pool stays
\* open while merge_tasks goes on to wait for its tasks
MergePoolClose_noclose ==
    /\ pc = "test"
    /\ ~something_to_merge
    /\ pc' = "join"
    /\ UNCHANGED <<input, MERGES, INT_PER_FILE, pos, disk, nextFile, tasks, closed,
                   sorted_fn_list, yanked, output, faults>>
    /\ UNCHANGED <<output0, handed, live_pools>>

\* len(sorted_fn_list) <= 1: pool.close()
MergePoolClose ==
    /\ pc = "test"
    /\ ~something_to_merge
    /\ closed' = TRUE
    /\ pc' = "join"
    /\ live_pools' = live_pools - 1
    /\ UNCHANGED <<input, MERGES, INT_PER_FILE, pos, disk, nextFile, tasks,
                   sorted_fn_list, yanked, output, faults>>
    /\ UNCHANGED <<output0, handed>>

\* pool.join() returns and len(sorted_fn_list) == 1: merge_tasks returns
MergeReturn ==
    /\ pc = "join"
    /\ join_returns
    /\ Len(sorted_fn_list) = 1
    /\ pc' = "rename"
    /\ UNCHANGED <<input, MERGES, INT_PER_FILE, pos, disk, nextFile, tasks, closed,
                   sorted_fn_list, yanked, output, faults>>
    /\ UNCHANGED <<output0, handed, live_pools>>

\* pool.join() returns and len(sorted_fn_list) != 1: a new pool, loop again
MergeRenewPool ==
    /\ pc = "join"
    /\ join_returns
    /\ Len(sorted_fn_list) # 1
    /\ closed' = FALSE
    /\ pc' = "test"
    /\ live_pools' = live_pools + 1
    /\ UNCHANGED <<input, MERGES, INT_PER_FILE, pos, disk, nextFile, tasks,
                   sorted_fn_list, yanked, output, faults>>
    /\ UNCHANGED <<output0, handed>>

\* rename(sorted_fn_list[0], output), first statement of the try block:
\* a file found at the target is unlinked
RenameUnlink ==
    /\ pc = "rename"
    /\ output' = <<>>
    /\ pc' = "move"
    /\ UNCHANGED <<input, MERGES, INT_PER_FILE, pos, disk, nextFile, tasks, closed,
                   sorted_fn_list, yanked, faults>>
    /\ UNCHANGED <<output0, handed, live_pools>>

\* os.rename(src, tgt) succeeds: the target holds what the source held and
\* the source path is gone
Rename ==
    /\ pc = "move"
    /\ output' = <<disk[sorted_fn_list[1]]>>
    /\ disk' = Unlink(disk, {sorted_fn_list[1]})
    /\ pc' = "done"
    /\ UNCHANGED <<input, MERGES, INT_PER_FILE, pos, nextFile, tasks, closed,
                   sorted_fn_list, yanked, faults>>
    /\ UNCHANGED <<output0, handed, live_pools>>

\* the handler of the try block with the exit(1) left out: the message is
\* printed and rename returns to sort, which returns
RenameFail_swallowed ==
    /\ \/ pc = "rename" /\ output # <<>>
       \/ pc = "move"
    /\ faults < MaxFaults
    /\ faults' = faults + 1
    /\ pc' = "done"
    /\ UNCHANGED <<input, MERGES, INT_PER_FILE, pos, disk, nextFile, tasks, closed,
                   sorted_fn_list, yanked, output>>
    /\ UNCHANGED <<output0, handed, live_pools>>

\* os.unlink(tgt) or os.rename(src, tgt) raises: the message is printed and
\* the process exits with status 1
RenameFail ==
    /\ \/ pc = "rename" /\ output # <<>>
       \/ pc = "move"
    /\ faults < MaxFaults
    /\ faults' = faults + 1
    /\ pc' = "exit"
    /\ UNCHANGED <<input, MERGES, INT_PER_FILE, pos, disk, nextFile, tasks, closed,
                   sorted_fn_list, yanked, output>>
    /\ UNCHANGED <<output0, handed, live_pools>>

\* ---- the tasks, run by the pool's worker processes ----
\* A task is one step.  A worker touches only the files of its own task, the
\* coordinator reads no file before rename, and the only thing the
\* coordinator sees of a task is cb, run by the result handler when the task
\* succeeded; so the file operations of a task and its cb commute with every
\* coordinator step in between.  Tasks of a closed pool still run to their
\* end: close() only stops new submissions.

\* sorter(fn) returns and the result handler calls cb(fn)
SorterDone(t) ==
    /\ t \in tasks
    /\ t.fn = "sorter"
    /\ disk' = WriteFile(disk, t.args[1], sorter(disk[t.args[1]]))
    /\ cb(t.args[1])
    /\ tasks' = tasks \ {t}
    /\ UNCHANGED <<input, MERGES, INT_PER_FILE, pos, nextFile, closed, yanked, pc,
                   output, faults>>
    /\ UNCHANGED <<output0, handed, live_pools>>

\* sorter(fn) raises: while reading (the file is left as it was) or while
\* writing (the file was truncated by open(fn, 'wb') and holds part of the
\* sorted items).  apply_async has no error_callback: cb is not called and
\* the exception stays in the discarded AsyncResult.
SorterFail(t) ==
    /\ t \in tasks
    /\ t.fn = "sorter"
    /\ faults < MaxFaults
    /\ faults' = faults + 1
    /\ \E n \in 0..Len(disk[t.args[1]]) :
          disk' = WriteFile(disk, t.args[1],
                            IF n = Len(disk[t.args[1]]) THEN disk[t.args[1]]
                            ELSE SliceTo(sorter(disk[t.args[1]]), n))
    /\ tasks' = tasks \ {t}
    /\ UNCHANGED <<input, MERGES, INT_PER_FILE, pos, nextFile, closed,
                   sorted_fn_list, yanked, pc, output>>
    /\ UNCHANGED <<output0, handed, live_pools>>
\* merger without its test `len(fn_list) == 1`: it merges whatever it is given
MergerDone_always_merges(t) ==
    /\ t \in tasks
    /\ t.fn = "merger"
    /\ disk' = Unlink(WriteFile(disk, nextFile, merge_files(disk, t.args)),
                       Range(t.args))
    /\ nextFile' = nextFile + 1
    /\ cb(nextFile)
    /\ tasks' = tasks \ {t}
    /\ UNCHANGED <<input, MERGES, INT_PER_FILE, pos, closed, yanked, pc, output,
                   faults>>
    /\ UNCHANGED <<output0, handed, live_pools>>


\* merger(fn_list) returns and the result handler calls cb with its result:
\* the one file of a one-element list, untouched; otherwise the new file
\* merge_files wrote, after every file of fn_list was unlinked
MergerDone(t) ==
    /\ t \in tasks
    /\ t.fn = "merger"
    /\ IF Len(t.args) = 1
       THEN /\ cb(t.args[1])
            /\ UNCHANGED <<disk, nextFile>>
       ELSE /\ disk' = Unlink(WriteFile(disk, nextFile, merge_files(disk, t.args)),
                              Range(t.args))
            /\ nextFile' = nextFile + 1
            /\ cb(nextFile)
    /\ tasks' = tasks \ {t}
    /\ UNCHANGED <<input, MERGES, INT_PER_FILE, pos, closed, yanked, pc, output,
                   faults>>
    /\ UNCHANGED <<output0, handed, live_pools>>

\* merge_files raises inside merger: before the temporary file exists, or
\* after some whole buffers (or all of them) were written to it.  The
\* unlink loop is not reached and cb is not called.
MergeFilesFail(t) ==
    /\ t \in tasks
    /\ t.fn = "merger"
    /\ Len(t.args) > 1
    /\ faults < MaxFaults
    /\ faults' = faults + 1
    /\ \/ UNCHANGED <<disk, nextFile>>
       \/ /\ \E res \in {merge_files(disk, t.args)} :
                \E n \in 0..Len(res) :
                   /\ n % INT_PER_CHUNK = 0 \/ n = Len(res)
                   /\ disk' = WriteFile(disk, nextFile, SliceTo(res, n))
          /\ nextFile' = nextFile + 1
    /\ tasks' = tasks \ {t}
    /\ UNCHANGED <<input, MERGES, INT_PER_FILE, pos, closed, sorted_fn_list, yanked,
                   pc, output>>
    /\ UNCHANGED <<output0, handed, live_pools>>

\* os.unlink raises inside merger on the i-th file of fn_list: the merged
\* file is complete, the files before the i-th are gone, cb is not called
UnlinkFail(t) ==
    /\ t \in tasks
    /\ t.fn = "merger"
    /\ Len(t.args) > 1
    /\ faults < MaxFaults
    /\ faults' = faults + 1
    /\ \E res \in {merge_files(disk, t.args)} :
          \E i \in 1..Len(t.args) :
             disk' = Unlink(WriteFile(disk, nextFile, res),
                            Range(SliceTo(t.args, i - 1)))
    /\ nextFile' = nextFile + 1
    /\ tasks' = tasks \ {t}
    /\ UNCHANGED <<input, MERGES, INT_PER_FILE, pos, closed, sorted_fn_list, yanked,
                   pc, output>>
    /\ UNCHANGED <<output0, handed, live_pools>>

\* ---- specification ----

\* a step of the main thread
Coordinator ==
    \/ CutAndSubmit
    \/ SortPoolClose
    \/ SortPoolJoin
    \/ MergeSubmit
    \/ MergeYankLoad
    \/ MergeYankStore
    \/ MergePoolClose
    \/ MergeReturn
    \/ MergeRenewPool
    \/ RenameUnlink
    \/ Rename
    \/ RenameFail

\* a task ends in a worker process (and its callback runs, if it succeeded)
Worker ==
    \/ \E t \in tasks : SorterDone(t)
    \/ \E t \in tasks : SorterFail(t)
    \/ \E t \in tasks : MergerDone(t)
    \/ \E t \in tasks : MergeFilesFail(t)
    \/ \E t \in tasks : UnlinkFail(t)

Next == Coordinator \/ Worker

Spec == Init /\ [][Next]_vars

\* The main thread keeps running and the pool runs every submitted task to
\* its end.
FairSpec == Init /\ [][Next]_vars /\ WF_vars(Coordinator) /\ WF_vars(Worker)

\* ---- the merging phase on its own ----

\* merge_tasks starts on five sorted one-record files: the state sort() is in
\* after the sort barrier for a five-record input cut with INT_PER_FILE = 1,
\* the sorter tasks having completed in the order they were submitted
InitMerging ==
    /\ input \in [1..5 -> 0..MaxVal]
    /\ MERGES \in 2..MaxMerges
    /\ INT_PER_FILE = 1
    /\ pos = 5
    /\ disk = [f \in 1..5 |-> <<input[f]>>]
    /\ nextFile = 6
    /\ tasks = {}
    /\ closed = FALSE
    /\ sorted_fn_list = <<1, 2, 3, 4, 5>>
    /\ yanked = <<>>
    /\ pc = "test"
    /\ output = <<>>
    /\ output0 = output
    /\ handed = <<>>
    /\ live_pools = 1
    /\ faults = 0

NextMerging ==
    \/ MergeSubmit
    \/ MergeYankLoad
    \/ MergeYankStore
    \/ MergePoolClose
    \/ MergeReturn
    \/ MergeRenewPool
    \/ RenameUnlink
    \/ Rename
    \/ RenameFail
    \/ \E t \in tasks : MergerDone(t)
    \/ \E t \in tasks : MergeFilesFail(t)
    \/ \E t \in tasks : UnlinkFail(t)

SpecMerging == InitMerging /\ [][NextMerging]_vars

\* ---- merger on its own ----
\* merger is a function of a list of files: it is also called with one file
\* (sort_profile maps it over lists that can have one element) and nothing
\* in it asks the files to be non-empty.  This specification runs one merger
\* task over 1..MaxMerges sorted files of up to MaxSegLen records, the main
\* thread waiting in pool.join(); input keeps the records the files held.

\* the sorted sequences a file can hold
sorted_segments == {s \in SeqsUpTo(0..MaxVal, MaxSegLen) : IsSorted(s)}

\* the records of a sequence of files, file after file
all_records(files) ==
    LET upto[k \in 0..Len(files)] == IF k = 0 THEN <<>> ELSE upto[k - 1] \o files[k]
    IN  upto[Len(files)]

InitMerger ==
    /\ \E n \in 1..MaxMerges :
          /\ disk \in [1..n -> sorted_segments]
          /\ tasks = {[fn |-> "merger", args |-> [i \in 1..n |-> i]]}
          /\ nextFile = n + 1
    /\ input = all_records(disk)
    /\ MERGES = MaxMerges
    /\ INT_PER_FILE = MaxPerFile
    /\ pos = Len(input)
    /\ closed = TRUE
    /\ sorted_fn_list = <<>>
    /\ yanked = <<>>
    /\ pc = "join"
    /\ output = <<>>
    /\ output0 = output
    /\ handed = <<>>
    /\ live_pools = 0
    /\ faults = 0

NextMerger ==
    \/ \E t \in tasks : MergerDone(t)
    \/ \E t \in tasks : MergeFilesFail(t)
    \/ \E t \in tasks : UnlinkFail(t)

SpecMerger == InitMerger /\ [][NextMerger]_vars

\* ---- cutter on its own ----
\* The main thread iterates cutter to its end and no submitted sorter has
\* started yet, so every file on disk still holds what cutter wrote to it.
NextCutter ==
    \/ CutAndSubmit
    \/ SortPoolClose

SpecCutter == Init /\ [][NextCutter]_vars

TypeOK ==
    /\ pc \in {"cut", "sortjoin", "test", "yank", "store", "join", "rename", "move", "done", "exit"}
    /\ Range(sorted_fn_list) \subseteq 1..(nextFile - 1)
    /\ faults \in 0..MaxFaults

\* ---- notions the properties are stated in ----

\* sort() has returned: the last file was renamed onto the output path
Done == pc = "done"

\* the coordinator is inside merge_tasks, between two statements that touch
\* sorted_fn_list (not between the slice and the store that removes it)
AtLoopHead == pc \in {"test", "join"}

RECURSIVE records_in(_)
records_in(fn_list) ==
    IF fn_list = <<>> THEN 0
    ELSE (IF Exists(disk, Head(fn_list)) THEN Len(disk[Head(fn_list)]) ELSE 0)
         + records_in(Tail(fn_list))

RECURSIVE records_in_flight(_)
records_in_flight(ts) ==
    IF ts = {} THEN 0
    ELSE LET t == CHOOSE t \in ts : TRUE
         IN  records_in(t.args) + records_in_flight(ts \ {t})

\* the number of places that name file fn: positions of sorted_fn_list and
\* positions of the argument lists of the tasks in flight
RECURSIVE named_by_tasks(_, _)
named_by_tasks(ts, fn) ==
    IF ts = {} THEN 0
    ELSE LET t == CHOOSE t \in ts : TRUE
         IN  Count(t.args, fn) + named_by_tasks(ts \ {t}, fn)

trackers(fn) == Count(sorted_fn_list, fn) + named_by_tasks(tasks, fn)

\* ---- C1 ----
\* C1: when sort() finishes, the output file holds exactly the records of the
\* input file, each as often as the input holds it.  Stated for the runs in
\* which nothing raised.
C1_OutputKeepsEveryRecord ==
    (Done /\ faults = 0) => SameRecords(output[1], input)

\* ---- C2 ----
\* C2: when sort() finishes, the output file is non-decreasing.
C2_OutputNonDecreasing ==
    Done => IsSorted(output[1])

\* a run that finished after at least one real merge, on an input that was
\* not sorted, with an output of three records that are not all equal
C2_Witness ==
    /\ Done
    /\ nextFile > n_cut_files + 1
    /\ ~IsSorted(input)
    /\ Len(output[1]) = 3
    /\ output[1][1] < output[1][3]

\* ---- C3 ----
\* C3: while the coordinator is in merge_tasks, the records of the files in
\* sorted_fn_list plus the records of the files handed to the mergers in
\* flight are as many as the input's records.  Stated for the states in which
\* the coordinator is not between the submit and the removal, in runs in
\* which nothing raised.
C3_RecordTotalKept ==
    (AtLoopHead /\ faults = 0) =>
        records_in(sorted_fn_list) + records_in_flight(tasks) = Len(input)

\* ---- C4 ----
\* C4: for a non-empty input, if no task fails and the threads and workers
\* keep running, the coordinator eventually reaches DONE; and whenever
\* merge_tasks has returned, sorted_fn_list holds exactly one file and no
\* task is in flight.
C4_EventuallyDone ==
    /\ (Len(input) > 0) => <>(Done \/ faults > 0)
    /\ [](pc \in {"rename", "move", "done"} => Len(sorted_fn_list) = 1 /\ tasks = {})

\* ---- C5 ----
\* C5: sort() of an empty input terminates with an empty output file, and
\* sort() of a one-record input terminates with that record as the output
\* (unless something raised).
C5_EmptyAndSingleRecord ==
    /\ (input = <<>>) => <>(Done /\ output = << <<>> >>)
    /\ (Len(input) = 1) => <>((Done /\ output = <<input>>) \/ faults > 0)

\* ---- C6 ----
\* C6: once a sorter or merger task has failed, the coordinator never reaches
\* DONE and no output file is installed (the output path is absent or still
\* holds what it held before the run).
C6_FailureAbortsRun ==
    faults > 0 => (~Done /\ output \in {<<>>, output0})

\* ---- C7 ----
\* C7: when a merger of two or more files ends, then if it succeeded (its
\* result was appended by cb) none of its input files exists, and if it
\* failed all of its input files still exist and nothing was appended.
C7_MergerEnds(t) ==
    (t.fn = "merger" /\ Len(t.args) >= 2 /\ t \notin tasks') =>
        IF sorted_fn_list' # sorted_fn_list
        THEN \A fn \in Range(t.args) : ~Exists(disk', fn)
        ELSE \A fn \in Range(t.args) : Exists(disk', fn)

C7_DestructiveMerge == [][\A t \in tasks : C7_MergerEnds(t)]_vars

\* ---- C8 ----
\* C8: every temporary file on disk is named exactly once, by sorted_fn_list
\* or by a task in flight, and after a successful run no temporary file is
\* left.  Stated for runs in which nothing raised, and for the states in
\* which the coordinator is not between a submit and the removal.
C8_EveryFileTrackedOnce ==
    (faults = 0 /\ pc \notin {"yank", "store"}) =>
        /\ \A fn \in DOMAIN disk : trackers(fn) = 1
        /\ Done => DOMAIN disk = {}

\* ---- C9 ----
\* C9: with MERGES = 2 and five sorted files in sorted_fn_list when
\* merge_tasks starts, when merge_tasks returns exactly one file is left and
\* it is sorted and holds all the records of the five files.  Stated for
\* runs in which nothing raised.
C9_FiveFilesFanInTwo ==
    (MERGES = 2 /\ faults = 0 /\ pc = "rename") =>
        /\ Len(sorted_fn_list) = 1
        /\ IsSorted(disk[sorted_fn_list[1]])
        /\ SameRecords(disk[sorted_fn_list[1]], input)

\* ---- C10 ----
\* C10: when cutter yields exactly one file, no merger task is ever
\* submitted and no file is created besides the cut one; if nothing raised
\* the coordinator finds exactly one file at every test of merge_tasks (so it
\* never renews the pool), and the output is the sorted input.
C10_SingleFileSkipsMerging ==
    n_cut_files = 1 =>
        /\ \A t \in tasks : t.fn # "merger"
        /\ pc \notin {"yank", "store"}
        /\ nextFile <= 2
        /\ (faults = 0 /\ pc \in {"test", "join", "rename"}) =>
               (sorted_fn_list = <<1>> /\ tasks = {})
        /\ (Done /\ faults = 0) => output = <<sorted[input]>>

\* a finished run on a two-record unsorted input that fits in one file
C10_Witness ==
    /\ n_cut_files = 1
    /\ Done
    /\ Len(input) = 2
    /\ ~IsSorted(input)
    /\ output = <<sorted[input]>>

\* ---- C11 ----
\* C11: finalize deletes a file found at the output path before it moves the
\* last file there; the step that completes the run leaves the output path
\* holding exactly what the last file held and the last file's path gone; a
\* failure of the delete or of the move ends the run with exit(1), after
\* which sort never returns.
C11_FinalizeReplacesOutput ==
    [][ /\ (pc = "rename" /\ pc' = "move") => output' = <<>>
        /\ (pc # "done" /\ pc' = "done") =>
              /\ pc = "move"
              /\ output = <<>>
              /\ Len(sorted_fn_list) = 1
              /\ output' = <<disk[sorted_fn_list[1]]>>
              /\ ~Exists(disk', sorted_fn_list[1])
        /\ (pc \in {"rename", "move"} /\ faults' > faults) => pc' = "exit"
        /\ pc = "exit" => pc' = "exit" ]_vars

\* a run that found a file at the output path and replaced it
C11_Witness ==
    /\ Done
    /\ output0 = <<stale_output>>
    /\ Len(input) > 1
    /\ output = <<sorted[input]>>
    /\ disk = <<>>

\* ---- C12 ----
\* C12: sorting what a previous sort wrote changes nothing: a run whose input
\* is already sorted (every output of sort is, and every sorted sequence is
\* the output of some run) and that finishes without a failure writes an
\* output equal to its input, record for record.
C12_ResortKeepsSequence ==
    (IsSorted(input) /\ Done /\ faults = 0) => output = <<input>>

\* ---- C13 ----
\* C13: the output of a run that finishes without a failure is the sorted
\* permutation of the input whatever MERGES is, so runs with two different
\* values of MERGES write the same output.
C13_OutputSameForEveryFanIn ==
    \A K \in 2..MaxMerges :
        (MERGES = K /\ Done /\ faults = 0) => output = <<sorted[input]>>

\* ---- C14 ----
\* C14: from the same files in the list and the same MERGES, merge_tasks
\* returns with the same one file content in whatever order the mergers
\* complete: the sorted sequence of the records the files held.
C14_SameFileForEveryCompletionOrder ==
    (pc = "rename" /\ faults = 0) =>
        /\ Len(sorted_fn_list) = 1
        /\ Exists(disk, sorted_fn_list[1])
        /\ disk[sorted_fn_list[1]] = sorted[input]

\* ---- C15 ----
\* C15: the list merge_tasks hands out is the first min(len, MERGES) files of
\* sorted_fn_list, and the replacement of sorted_fn_list removes exactly
\* those files: whatever a callback appended in between stays in the list.
C15_YankRemovesWhatWasHanded ==
    [][ /\ (pc = "test" /\ pc' = "yank") =>
              handed' = SubSeq(sorted_fn_list, 1, Min(Len(sorted_fn_list), MERGES))
        /\ (pc = "store" /\ pc' = "test") =>
              sorted_fn_list = handed \o sorted_fn_list' ]_vars

\* ---- C16 ----
\* C16: merge_tasks tests `len(sorted_fn_list) == 1` only at a barrier: at
\* the step that makes the test the pool is closed and none of its tasks is
\* in flight; and every merger that ended successfully before had its result
\* appended to the back of sorted_fn_list in the step that ended it.
C16_DoneTestedAtBarrier ==
    [][ /\ (pc = "join" /\ pc' # "join") =>
              /\ closed
              /\ live_pools = 0
              /\ tasks = {}
        /\ \A t \in tasks \ tasks' :
              (t.fn = "merger" /\ faults' = faults) =>
                  LET res == IF Len(t.args) = 1 THEN t.args[1] ELSE nextFile
                  IN  /\ sorted_fn_list' = Append(sorted_fn_list, res)
                      /\ Exists(disk', res) ]_vars

\* the test is about to be made after a merger of this pool has ended
C16_Witness ==
    /\ pc = "join"
    /\ closed
    /\ tasks = {}
    /\ Len(sorted_fn_list) = 1
    /\ sorted_fn_list[1] > n_cut_files
    /\ Len(disk[sorted_fn_list[1]]) = Len(input)

\* ---- C17 ----
\* C17: no merger is submitted while a sorter is in flight, and at the step
\* that enters the merge phase the sorting pool is closed, no task is in
\* flight, and sorted_fn_list holds each file cutter produced exactly once,
\* each of them sorted.
C17_SortBarrier ==
    [][ /\ (\E m \in tasks' \ tasks : m.fn = "merger") =>
              \A t \in tasks : t.fn # "sorter"
        /\ (pc = "sortjoin" /\ pc' = "test") =>
              /\ closed
              /\ live_pools = 0
              /\ tasks = {}
              /\ Len(sorted_fn_list) = n_cut_files
              /\ Range(sorted_fn_list) = 1..n_cut_files
              /\ \A f \in 1..n_cut_files : Exists(disk, f) /\ IsSorted(disk[f]) ]_vars

\* ---- C18 ----
\* C18: at most one pool is open at any time; a task is only ever submitted
\* while the current pool is open; and when merge_tasks leaves its barrier
\* it has a new open pool exactly when sorted_fn_list does not hold exactly
\* one file (otherwise it returns with every pool closed).
C18_NoSubmitToClosedPool ==
    /\ [](live_pools \in {0, 1} /\ (closed <=> live_pools = 0))
    /\ [][ /\ (tasks' \ tasks # {}) => (~closed /\ live_pools = 1)
           /\ (pc = "join" /\ pc' # "join") =>
                 /\ closed
                 /\ Len(sorted_fn_list') = Len(sorted_fn_list)
                 /\ IF Len(sorted_fn_list) = 1
                       THEN closed' /\ live_pools' = 0 /\ pc' = "rename"
                       ELSE ~closed' /\ live_pools' = 1 /\ pc' = "test" ]_vars

\* merge_tasks is at its barrier with two or more files in the list: the
\* next step creates the new pool the following mergers are submitted to
C18_Witness ==
    /\ pc = "join"
    /\ closed
    /\ live_pools = 0
    /\ tasks = {}
    /\ Len(sorted_fn_list) > 1

\* ---- C19 ----
\* C19: a merger given a list of one file ends by handing that same file
\* name to cb; no file is created, and the file is neither changed nor
\* deleted.
C19_SingleInputMergeIsNoOp ==
    [][ \A t \in tasks \ tasks' :
            (t.fn = "merger" /\ Len(t.args) = 1) =>
                /\ sorted_fn_list' = Append(sorted_fn_list, t.args[1])
                /\ nextFile' = nextFile
                /\ disk' = disk
                /\ Exists(disk', t.args[1])
                /\ faults' = faults ]_vars

\* a merger of one full file has ended
C19_Witness ==
    /\ tasks = {}
    /\ sorted_fn_list = <<1>>
    /\ nextFile = 2
    /\ DOMAIN disk = {1}
    /\ Len(disk[1]) = MaxSegLen
    /\ disk[1] = input

\* ---- C20 ----
\* C20: when a merger of two or more sorted files succeeds, the file it
\* wrote is sorted and holds exactly the records of its input files, each as
\* often as the input files together held it; whatever the length of the
\* output is against the buffer length INT_PER_CHUNK, and also when some
\* input files are empty.
C20_MergeWritesSortedUnion ==
    [][ \A t \in tasks \ tasks' :
            ( /\ t.fn = "merger"
              /\ Len(t.args) >= 2
              /\ faults' = faults
              /\ \A i \in 1..Len(t.args) : IsSorted(disk[t.args[i]]) ) =>
                /\ Exists(disk', nextFile)
                /\ sorted_fn_list' = Append(sorted_fn_list, nextFile)
                /\ IsSorted(disk'[nextFile])
                /\ SameRecords(disk'[nextFile],
                               all_records([i \in 1..Len(t.args) |-> disk[t.args[i]]])) ]_vars

\* a merger of three files, at least one of them empty, has written a file
\* of exactly one buffer
C20_Witness ==
    /\ tasks = {}
    /\ faults = 0
    /\ nextFile = 5
    /\ sorted_fn_list = <<4>>
    /\ DOMAIN disk = {4}
    /\ Len(disk[4]) = INT_PER_CHUNK
    /\ disk[4][1] < disk[4][INT_PER_CHUNK]

\* ---- C21 ----
\* C21: the files cutter has yielded so far hold, one after the other in
\* yield order, the records of the input read so far, unchanged and in input
\* order; every file but the last yielded holds exactly INT_PER_FILE
\* records, every file holds between 1 and INT_PER_FILE records, and when
\* cutter is exhausted the whole input has been yielded.
C21_CutterYieldsInputVerbatim ==
    /\ DOMAIN disk = 1..(nextFile - 1)
    /\ all_records(disk) = SubSeq(input, 1, pos)
    /\ \A f \in DOMAIN disk :
          /\ Len(disk[f]) \in 1..INT_PER_FILE
          /\ f < nextFile - 1 => Len(disk[f]) = INT_PER_FILE
    /\ pc # "cut" => (pos = Len(input) /\ nextFile - 1 = n_cut_files)

\* cutter is exhausted after a full file and a shorter last one, the first
\* of them holding its records in input order, not in sorted order
C21_Witness ==
    /\ pc = "sortjoin"
    /\ Len(input) > INT_PER_FILE
    /\ Len(input) % INT_PER_FILE # 0
    /\ nextFile = 3
    /\ disk[1] = SubSeq(input, 1, INT_PER_FILE)
    /\ ~IsSorted(disk[1])
    /\ disk[2] = SubSeq(input, INT_PER_FILE + 1, Len(input))

\* ---- C22 ----
\* the files in list l plus the input files of the mergers in flight in ts
live_segments(l, ts) ==
    Len(l) + Cardinality(UNION {{<<t, i>> : i \in 1..Len(t.args)} :
                                  t \in {u \in ts : u.fn = "merger"}})

\* C22: every merger task in flight was given at least 2 and at most MERGES
\* files, whenever the callbacks ran; and the step in which a merger ends
\* successfully leaves fewer live segments (files in sorted_fn_list plus
\* input files of mergers in flight) than there were before it.
C22_FanInBoundsAndProgress ==
    /\ [](\A t \in tasks : t.fn = "merger" => Len(t.args) \in 2..MERGES)
    /\ [][ /\ \A m \in tasks' \ tasks :
                  m.fn = "merger" =>
                      /\ Len(m.args) \in 2..MERGES
                      /\ m.args = SubSeq(sorted_fn_list, 1, Len(m.args))
           /\ \A t \in tasks \ tasks' :
                  (t.fn = "merger" /\ faults' = faults) =>
                      live_segments(sorted_fn_list', tasks')
                          < live_segments(sorted_fn_list, tasks) ]_vars

\* a merger given MERGES one-record files, more than two, has ended
\* successfully while the main thread was still between submit and removal
C22_Witness ==
    /\ faults = 0
    /\ INT_PER_FILE = 1
    /\ MERGES > 2
    /\ Len(input) = MERGES
    /\ pc = "store"
    /\ tasks = {}
    /\ Len(sorted_fn_list) = MERGES + 1
    /\ Len(disk[sorted_fn_list[MERGES + 1]]) = MERGES
====
